---- MODULE Spec2Model ----
(***************************************************************************)
(* hwaf: a fasthttp front end over a Hyperscan block database.             *)
(*                                                                         *)
(* Startup (main -> preRunE -> buildScratch) reads a tab-separated rule    *)
(* file into the package-level RegexMap, compiles the patterns into Db and *)
(* allocates the one Scratch.  After that every request runs               *)
(* requestHandler, which locks Scratch, scans the request URI, collects    *)
(* the match events through a closure and answers with a Response.         *)
(*                                                                         *)
(* Strings are modelled as sequences of one-character strings so that      *)
(* TrimSpace, HasPrefix, Split and Atoi are computed as the Go library     *)
(* computes them.  The Hyperscan engine is an external collaborator: its   *)
(* compile step, its scratch allocation and its scan are modelled by the   *)
(* Engine* definitions (literal substring matching, reported in order of   *)
(* end offset), and it may fail where the Go API returns an error.         *)
(***************************************************************************)
EXTENDS Integers, Sequences, FiniteSets, TLC

VARIABLES
    pc,          \* position of the startup goroutine (main/preRunE/buildScratch/run)
    source,      \* the rule file: a sequence of lines
    lineNo,      \* number of lines scanner.Scan() has delivered so far
    scannerErr,  \* scanner.Err() # nil
    patterns,    \* buildScratch's local slice of *hyperscan.Pattern
    RegexMap,    \* package-level map[int]RegexLine
    Db,          \* package-level hyperscan.BlockDatabase
    Scratch,     \* package-level scratch{RWMutex, s}
    err,         \* the error preRunE returns
    engineCalls, \* how often NewBlockDatabase / NewScratch were called
    rpc,         \* per request: position inside requestHandler
    inputData,   \* per request: []byte(ctx.RequestURI())
    matchResps,  \* per request: the slice the eventHandler closure appends to
    resp,        \* per request: the Response being built / encoded
    reported,    \* per request: the events the engine passed to the callback
    scanErr,     \* per request: what Db.Scan returned
    cbRet,       \* per request: what the eventHandler returned last
    scanCalls    \* per request: how often Db.Scan was called

vars == <<pc, source, lineNo, scannerErr, patterns, RegexMap, Db, Scratch, err,
          engineCalls, rpc, inputData, matchResps, resp, reported, scanErr, cbRet,
          scanCalls>>

loadVars == <<pc, source, lineNo, scannerErr, patterns, RegexMap, Db, err, engineCalls>>
reqVars  == <<rpc, inputData, matchResps, resp, reported, scanErr, cbRet, scanCalls>>

(***************************************************************************)
(* Bounds of the model.                                                    *)
(***************************************************************************)
\* longest rule file, in lines, of the loading specification
MaxLines == 3
\* number of concurrent requestHandler invocations
NumReq == 2
\* width of the engine's unsigned rule id.  Hyperscan ids are C unsigned int;
\* TLC's integers are 32-bit signed, so the wrap-around of a negative Go id
\* is kept but at a smaller width.  Every id of the model is far below it.
UintBits == 16

Nil == "nil"
Req == 1..NumReq

\* var resp Response = Response{Errno: 0}
NewResponse == [Errno |-> 0, Msg |-> <<>>, Data |-> <<>>]

(***************************************************************************)
(* Go string functions used by buildScratch.                               *)
(***************************************************************************)
TAB  == "\t"
SP   == " "
HASH == "#"

IsSpace(c) == c \in {SP, TAB}

RECURSIVE TrimLeft(_)
TrimLeft(s) ==
    IF s # <<>> /\ IsSpace(Head(s)) THEN TrimLeft(Tail(s)) ELSE s

RECURSIVE TrimRight(_)
TrimRight(s) ==
    IF s # <<>> /\ IsSpace(s[Len(s)]) THEN TrimRight(SubSeq(s, 1, Len(s) - 1)) ELSE s

\* strings.TrimSpace: leading and trailing white space removed
TrimSpace(s) == TrimRight(TrimLeft(s))

\* strings.HasPrefix
HasPrefix(s, prefix) ==
    /\ Len(s) >= Len(prefix)
    /\ SubSeq(s, 1, Len(prefix)) = prefix

\* strings.Split(s, sep) for a one-character separator: n separators give n+1 fields
RECURSIVE Split(_, _)
Split(s, sep) ==
    IF \E i \in 1..Len(s) : s[i] = sep
    THEN LET i == CHOOSE k \in 1..Len(s) :
                     /\ s[k] = sep
                     /\ \A j \in 1..(k - 1) : s[j] # sep
         IN  <<SubSeq(s, 1, i - 1)>> \o Split(SubSeq(s, i + 1, Len(s)), sep)
    ELSE <<s>>

Digits == {"0", "1", "2", "3", "4", "5", "6", "7", "8", "9"}

DigitVal(c) ==
    CASE c = "0" -> 0 [] c = "1" -> 1 [] c = "2" -> 2 [] c = "3" -> 3
      [] c = "4" -> 4 [] c = "5" -> 5 [] c = "6" -> 6 [] c = "7" -> 7
      [] c = "8" -> 8 [] c = "9" -> 9

RECURSIVE DecVal(_)
DecVal(s) ==
    IF s = <<>> THEN 0
    ELSE 10 * DecVal(SubSeq(s, 1, Len(s) - 1)) + DigitVal(s[Len(s)])

\* strconv.Atoi: an optional sign followed by at least one decimal digit
Atoi(s) ==
    LET signed == s # <<>> /\ Head(s) \in {"+", "-"}
        digits == IF signed THEN Tail(s) ELSE s
        ok     == digits # <<>> /\ \A i \in 1..Len(digits) : digits[i] \in Digits
    IN  IF ok
        THEN [ok  |-> TRUE,
              val |-> IF signed /\ Head(s) = "-" THEN 0 - DecVal(digits)
                                                 ELSE DecVal(digits)]
        ELSE [ok |-> FALSE, val |-> 0]

(***************************************************************************)
(* The rule lines the model draws rule files from.                         *)
(***************************************************************************)
LineRule1     == <<"1", TAB, "a", TAB, "p">>
LineRule2     == <<"2", TAB, "b", TAB, "q">>
LineDupId     == <<"1", TAB, "b", TAB, "q">>
LineNegId     == <<"-", "1", TAB, "a", TAB, "p">>
LineComment   == <<SP, HASH, "x", TAB, "a", TAB, "p">>
LineShort     == <<"1", TAB, "a">>
LineBlank     == <<>>
LineBadId     == <<"x", TAB, "a", TAB, "p">>
LineBadExpr   == <<"2", TAB, "(", TAB, "p">>
LineLeadSpace == <<SP, "1", TAB, "a", TAB, "p">>
LineTrailTab  == <<"2", TAB, "a", TAB>>

Lines == {LineRule1, LineRule2, LineDupId, LineNegId, LineComment, LineShort,
          LineBlank, LineBadId, LineBadExpr, LineLeadSpace, LineTrailTab}

SeqsUpTo(S, n) == UNION {[1..k -> S] : k \in 0..n}

\* rule files of the loading specification
Sources == SeqsUpTo(Lines, MaxLines)

\* rule files of the serving specification
RuleFiles == {<<LineRule1, LineRule2>>,
              <<LineRule1, LineDupId>>,
              <<LineNegId, LineComment, LineRule2>>,
              <<LineShort, LineComment>>,
              <<LineRule2, LineBadId>>}

(***************************************************************************)
(* The per-line decisions of buildScratch's loop.                          *)
(***************************************************************************)
IsComment(line) == HasPrefix(TrimSpace(line), <<HASH>>)

Fields(line) == Split(line, TAB)

TooShort(line) == Len(Fields(line)) < 3

RegexLineOf(expr, data) == [Expr |-> expr, Data |-> data]

PatternOf(expr, flags, id) == [Expression |-> expr, Flags |-> flags, Id |-> id]

EmptyMap == [k \in {} |-> Nil]

\* mutant of MapPut: an id already present keeps its first line
MapPutFirstWins(m, k, v) == [x \in (DOMAIN m) \cup {k} |-> IF x \in DOMAIN m THEN m[x] ELSE v]

\* RegexMap[id] = RegexLine{...}: insert or overwrite
MapPut(m, k, v) == [x \in (DOMAIN m) \cup {k} |-> IF x = k THEN v ELSE m[x]]

(***************************************************************************)
(* The engine: compile, scratch allocation.                                *)
(***************************************************************************)
\* an expression Hyperscan refuses: empty, or with an unbalanced parenthesis
ValidExpr(e) == e # <<>> /\ \A i \in 1..Len(e) : e[i] # "("

\* hyperscan.NewBlockDatabase(patterns...): all patterns or none
EngineCompile(ps) ==
    IF \A i \in 1..Len(ps) : ValidExpr(ps[i].Expression)
    THEN [db |-> [patterns |-> ps], err |-> Nil]
    ELSE [db |-> Nil, err |-> "compile error"]

(***************************************************************************)
(* Startup: preRunE and buildScratch.                                      *)
(***************************************************************************)
InitCommon ==
    /\ pc = "preRunE"
    /\ lineNo = 0
    /\ scannerErr = FALSE
    /\ patterns = <<>>
    /\ RegexMap = EmptyMap
    /\ Db = Nil
    /\ Scratch = [s |-> Nil, holders |-> {},
                  acquired |-> [r \in Req |-> 0], released |-> [r \in Req |-> 0]]
    /\ err = Nil
    /\ engineCalls = [compile |-> 0, alloc |-> 0]
    /\ rpc = [r \in Req |-> "idle"]
    /\ inputData = [r \in Req |-> <<>>]
    /\ matchResps = [r \in Req |-> <<>>]
    /\ resp = [r \in Req |-> NewResponse]
    /\ reported = [r \in Req |-> <<>>]
    /\ scanErr = [r \in Req |-> Nil]
    /\ cbRet = [r \in Req |-> Nil]
    /\ scanCalls = [r \in Req |-> 0]

\* preRunE: an empty file path is refused, otherwise RegexMap is made
PreRunE ==
    /\ pc = "preRunE"
    /\ \E emptyPath \in BOOLEAN :
         IF emptyPath
         THEN /\ err' = "empty regex filepath"
              /\ pc' = "returned"
              /\ UNCHANGED RegexMap
         ELSE /\ RegexMap' = EmptyMap
              /\ pc' = "open"
              /\ UNCHANGED err
    /\ UNCHANGED <<source, lineNo, scannerErr, patterns, Db, Scratch, engineCalls>>
    /\ UNCHANGED reqVars

\* os.Open(filepath)
OpenFile ==
    /\ pc = "open"
    /\ \E ok \in BOOLEAN :
         IF ok THEN pc' = "parseFlag" /\ UNCHANGED err
               ELSE pc' = "returned" /\ err' = "open error"
    /\ UNCHANGED <<source, lineNo, scannerErr, patterns, RegexMap, Db, Scratch, engineCalls>>
    /\ UNCHANGED reqVars

\* hyperscan.ParseCompileFlag(Flag)
ParseFlag ==
    /\ pc = "parseFlag"
    /\ \E ok \in BOOLEAN :
         IF ok THEN pc' = "scan" /\ UNCHANGED err
               ELSE pc' = "returned" /\ err' = "flag error"
    /\ UNCHANGED <<source, lineNo, scannerErr, patterns, RegexMap, Db, Scratch, engineCalls>>
    /\ UNCHANGED reqVars

AtLine == pc = "scan" /\ lineNo < Len(source)
Line == source[lineNo + 1]

\* line start with #, skip
SkipComment ==
    /\ AtLine
    /\ IsComment(Line)
    /\ lineNo' = lineNo + 1
    /\ UNCHANGED <<pc, source, scannerErr, patterns, RegexMap, Db, Scratch, err, engineCalls>>
    /\ UNCHANGED reqVars

\* length less than 3, skip
SkipShort ==
    /\ AtLine
    /\ ~IsComment(Line)
    /\ TooShort(Line)
    /\ lineNo' = lineNo + 1
    /\ UNCHANGED <<pc, source, scannerErr, patterns, RegexMap, Db, Scratch, err, engineCalls>>
    /\ UNCHANGED reqVars

\* mutant of AtoiError: the line is logged and skipped like a short line
AtoiErrorSkipsLine ==
    /\ AtLine
    /\ ~IsComment(Line)
    /\ ~TooShort(Line)
    /\ ~Atoi(Fields(Line)[1]).ok
    /\ lineNo' = lineNo + 1
    /\ UNCHANGED <<pc, source, scannerErr, patterns, RegexMap, Db, Scratch, err, engineCalls>>
    /\ UNCHANGED reqVars

\* strconv.Atoi(s[0]) fails: buildScratch returns "Atoi error."
AtoiError ==
    /\ AtLine
    /\ ~IsComment(Line)
    /\ ~TooShort(Line)
    /\ ~Atoi(Fields(Line)[1]).ok
    /\ lineNo' = lineNo + 1
    /\ err' = "Atoi error."
    /\ pc' = "returned"
    /\ UNCHANGED <<source, scannerErr, patterns, RegexMap, Db, Scratch, engineCalls>>
    /\ UNCHANGED reqVars

\* the rule is appended to patterns and written into RegexMap
AddRule ==
    /\ AtLine
    /\ ~IsComment(Line)
    /\ ~TooShort(Line)
    /\ Atoi(Fields(Line)[1]).ok
    /\ LET s    == Fields(Line)
           id   == Atoi(s[1]).val
           expr == s[2]
           data == s[3]
       IN  /\ patterns' = Append(patterns, PatternOf(expr, "flags", id))
           /\ RegexMap' = MapPut(RegexMap, id, RegexLineOf(expr, data))
    /\ lineNo' = lineNo + 1
    /\ UNCHANGED <<pc, source, scannerErr, Db, Scratch, err, engineCalls>>
    /\ UNCHANGED reqVars

\* scanner.Scan() returns false at the end of the file
ScanEOF ==
    /\ pc = "scan"
    /\ lineNo = Len(source)
    /\ pc' = "checkEmpty"
    /\ UNCHANGED <<source, lineNo, scannerErr, patterns, RegexMap, Db, Scratch, err, engineCalls>>
    /\ UNCHANGED reqVars

\* scanner.Scan() returns false because reading failed
ScanReadError ==
    /\ pc = "scan"
    /\ scannerErr' = TRUE
    /\ pc' = "checkEmpty"
    /\ UNCHANGED <<source, lineNo, patterns, RegexMap, Db, Scratch, err, engineCalls>>
    /\ UNCHANGED reqVars

\* mutant of CheckEmpty: the test is len(patterns) < 0
CheckEmptyNever ==
    /\ pc = "checkEmpty"
    /\ IF Len(patterns) < 0
       THEN pc' = "returned" /\ err' = "Empty regex"
       ELSE pc' = "compile" /\ UNCHANGED err
    /\ UNCHANGED <<source, lineNo, scannerErr, patterns, RegexMap, Db, Scratch, engineCalls>>
    /\ UNCHANGED reqVars

\* if len(patterns) <= 0 { return fmt.Errorf("Empty regex") }
CheckEmpty ==
    /\ pc = "checkEmpty"
    /\ IF Len(patterns) <= 0
       THEN pc' = "returned" /\ err' = "Empty regex"
       ELSE pc' = "compile" /\ UNCHANGED err
    /\ UNCHANGED <<source, lineNo, scannerErr, patterns, RegexMap, Db, Scratch, engineCalls>>
    /\ UNCHANGED reqVars

\* db, err := hyperscan.NewBlockDatabase(patterns...); Db = db
Compile ==
    /\ pc = "compile"
    /\ LET r == EngineCompile(patterns)
       IN  /\ Db' = r.db
           /\ IF r.err # Nil
              THEN pc' = "returned" /\ err' = r.err
              ELSE pc' = "newScratch" /\ UNCHANGED err
    /\ engineCalls' = [engineCalls EXCEPT !.compile = @ + 1]
    /\ UNCHANGED <<source, lineNo, scannerErr, patterns, RegexMap, Scratch>>
    /\ UNCHANGED reqVars

\* scratch, err := hyperscan.NewScratch(Db); Scratch.s = scratch
NewScratch ==
    /\ pc = "newScratch"
    /\ \E ok \in BOOLEAN :
         IF ok
         THEN /\ Scratch' = [Scratch EXCEPT !.s = "scratch"]
              /\ pc' = "scannerErr"
              /\ UNCHANGED err
         ELSE /\ pc' = "returned"
              /\ err' = "alloc error"
              /\ UNCHANGED Scratch
    /\ engineCalls' = [engineCalls EXCEPT !.alloc = @ + 1]
    /\ UNCHANGED <<source, lineNo, scannerErr, patterns, RegexMap, Db>>
    /\ UNCHANGED reqVars

\* if err := scanner.Err(); err != nil { return err }; return nil
CheckScannerErr ==
    /\ pc = "scannerErr"
    /\ err' = IF scannerErr THEN "read error" ELSE Nil
    /\ pc' = "returned"
    /\ UNCHANGED <<source, lineNo, scannerErr, patterns, RegexMap, Db, Scratch, engineCalls>>
    /\ UNCHANGED reqVars

LoadNext ==
    \/ PreRunE
    \/ OpenFile
    \/ ParseFlag
    \/ SkipComment
    \/ SkipShort
    \/ AtoiError
    \/ AddRule
    \/ ScanEOF
    \/ ScanReadError
    \/ CheckEmpty
    \/ Compile
    \/ NewScratch
    \/ CheckScannerErr

InitLoad == InitCommon /\ source \in Sources

SpecLoad == InitLoad /\ [][LoadNext]_vars

(***************************************************************************)
(* The engine: scanning.                                                   *)
(***************************************************************************)
\* request URIs the model draws from
Inputs == {<<>>, <<"z">>, <<"a", "b">>, <<"b", "a">>}

\* the id Hyperscan stores and reports is a C unsigned int: C.uint(pattern.Id)
EngineId(id) == id % (2 ^ UintBits)

IsSuffix(e, s) ==
    /\ Len(e) <= Len(s)
    /\ SubSeq(s, Len(s) - Len(e) + 1, Len(s)) = e

\* the match event of pattern p ending at offset to
EventOf(p, to) ==
    [id |-> EngineId(p.Id), from |-> to - Len(p.Expression), to |-> to, flags |-> 0]

RECURSIVE MatchesEndingAt(_, _, _, _)
MatchesEndingAt(ps, data, to, i) ==
    IF i > Len(ps) THEN <<>>
    ELSE (IF IsSuffix(ps[i].Expression, SubSeq(data, 1, to))
          THEN <<EventOf(ps[i], to)>> ELSE <<>>)
         \o MatchesEndingAt(ps, data, to, i + 1)

RECURSIVE MatchesFrom(_, _, _)
MatchesFrom(ps, data, to) ==
    IF to > Len(data) THEN <<>>
    ELSE MatchesEndingAt(ps, data, to, 1) \o MatchesFrom(ps, data, to + 1)

\* the events a complete scan of data against db reports, in the engine's
\* order: by end offset, then by pattern
EngineMatches(db, data) == MatchesFrom(db.patterns, data, 1)

(***************************************************************************)
(* The Scratch lock.                                                       *)
(***************************************************************************)
\* mutant of MutexFree: the read lock is taken, which never excludes readers
MutexFreeRLock(m) == TRUE

\* Scratch.Lock() returns only when nobody holds the mutex
MutexFree(m) == m.holders = {}

MutexLock(m, r) ==
    [m EXCEPT !.holders = @ \cup {r}, !.acquired[r] = @ + 1]

MutexUnlock(m, r) ==
    [m EXCEPT !.holders = @ \ {r}, !.released[r] = @ + 1]

(***************************************************************************)
(* requestHandler.                                                         *)
(***************************************************************************)
EmptyRegexLine == [Expr |-> <<>>, Data |-> <<>>]

\* mutant of Collector: matchResps is one package-level slice
CollectorShared(r) == 1

\* var matchResps []MatchResp is local: each call's closure has its own
Collector(r) == r

\* mutant of MapAfterLookup: a missing id is entered with an empty RegexLine
MapAfterLookupInserts(m, id) ==
    IF id \in DOMAIN m THEN m ELSE MapPut(m, id, EmptyRegexLine)

\* regexLine, ok := RegexMap[int(id)]: the two-value index reads the map only
MapAfterLookup(m, id) == m

\* mutant of eventHandler: the new entry is put in front
eventHandlerPrepends(resps, e, context) ==
    LET id == e.id
        regexLine == IF id \in DOMAIN RegexMap THEN RegexMap[id] ELSE EmptyRegexLine
    IN  [resps |-> <<[Id |-> id, From |-> e.from, To |-> e.to, Flags |-> e.flags,
                      Context |-> context, RegexLinev |-> regexLine]>> \o resps,
         ret   |-> Nil]

\* mutant of eventHandler: an id missing from RegexMap is an error
eventHandlerMissFails(resps, e, context) ==
    LET id == e.id
    IN  IF id \in DOMAIN RegexMap
        THEN [resps |-> Append(resps,
                               [Id |-> id, From |-> e.from, To |-> e.to,
                                Flags |-> e.flags, Context |-> context,
                                RegexLinev |-> RegexMap[id]]),
              ret   |-> Nil]
        ELSE [resps |-> resps, ret |-> "unknown id"]

\* the closure: look the id up, append a MatchResp, return nil
eventHandler(resps, e, context) ==
    LET id == e.id
        regexLine == IF id \in DOMAIN RegexMap THEN RegexMap[id] ELSE EmptyRegexLine
    IN  [resps |-> Append(resps,
                          [Id |-> id, From |-> e.from, To |-> e.to, Flags |-> e.flags,
                           Context |-> context, RegexLinev |-> regexLine]),
         ret   |-> Nil]

\* mutant of RespAfterScan: the no-match test is len(matchResps) < 0
RespAfterScanNoEmptyTest(rsp, e, resps) ==
    IF e # Nil
    THEN [rsp EXCEPT !.Errno = -2, !.Msg = <<"Db.Scan error: ", e>>]
    ELSE [(IF Len(resps) < 0
           THEN [rsp EXCEPT !.Errno = 1, !.Msg = <<"no match">>]
           ELSE rsp) EXCEPT !.Data = resps]

\* mutant of RespAfterScan: resp.Data is set on the error branch too
RespAfterScanKeepsMatches(rsp, e, resps) ==
    IF e # Nil
    THEN [rsp EXCEPT !.Errno = -2, !.Msg = <<"Db.Scan error: ", e>>, !.Data = resps]
    ELSE [(IF Len(resps) <= 0
           THEN [rsp EXCEPT !.Errno = 1, !.Msg = <<"no match">>]
           ELSE rsp) EXCEPT !.Data = resps]

\* the if/else after Db.Scan
RespAfterScan(rsp, e, resps) ==
    IF e # Nil
    THEN [rsp EXCEPT !.Errno = -2, !.Msg = <<"Db.Scan error: ", e>>]
    ELSE [(IF Len(resps) <= 0
           THEN [rsp EXCEPT !.Errno = 1, !.Msg = <<"no match">>]
           ELSE rsp) EXCEPT !.Data = resps]

\* mutant of ReleaseScratch: the error branch returns without unlocking
ReleaseScratchOnSuccessOnly(m, r) ==
    IF scanErr[r] # Nil THEN m ELSE MutexUnlock(m, r)

\* Scratch.Unlock() after the if/else, on every branch
ReleaseScratch(m, r) == MutexUnlock(m, r)

\* mutant of Run: the server listens whatever preRunE returned
RunIgnoresError ==
    /\ pc = "returned"
    /\ pc' = "serving"
    /\ UNCHANGED <<source, lineNo, scannerErr, patterns, RegexMap, Db, Scratch, err, engineCalls>>
    /\ UNCHANGED reqVars

\* run: preRunE returned nil, the server listens
Run ==
    /\ pc = "returned"
    /\ err = Nil
    /\ pc' = "serving"
    /\ UNCHANGED <<source, lineNo, scannerErr, patterns, RegexMap, Db, Scratch, err, engineCalls>>
    /\ UNCHANGED reqVars

\* preRunE returned an error: run is not called
Abort ==
    /\ pc = "returned"
    /\ err # Nil
    /\ pc' = "exit"
    /\ UNCHANGED <<source, lineNo, scannerErr, patterns, RegexMap, Db, Scratch, err, engineCalls>>
    /\ UNCHANGED reqVars

\* a request arrives: resp, inputData and matchResps are set up
Start(r) ==
    /\ pc = "serving"
    /\ rpc[r] = "idle"
    /\ \E data \in Inputs : inputData' = [inputData EXCEPT ![r] = data]
    /\ resp' = [resp EXCEPT ![r] = NewResponse]
    /\ matchResps' = [matchResps EXCEPT ![Collector(r)] = <<>>]
    /\ rpc' = [rpc EXCEPT ![r] = "lock"]
    /\ UNCHANGED <<reported, scanErr, cbRet, scanCalls, Scratch>>
    /\ UNCHANGED loadVars

\* Scratch.Lock() returns and Db.Scan is called
Lock(r) ==
    /\ rpc[r] = "lock"
    /\ MutexFree(Scratch)
    /\ Scratch' = MutexLock(Scratch, r)
    /\ scanCalls' = [scanCalls EXCEPT ![r] = @ + 1]
    /\ rpc' = [rpc EXCEPT ![r] = "scan"]
    /\ UNCHANGED <<inputData, matchResps, resp, reported, scanErr, cbRet>>
    /\ UNCHANGED loadVars

\* inside Db.Scan: the engine reports its next match to the callback
Callback(r) ==
    /\ rpc[r] = "scan"
    /\ cbRet[r] = Nil
    /\ LET all == EngineMatches(Db, inputData[r])
           k   == Len(reported[r])
       IN  /\ k < Len(all)
           /\ LET h == eventHandler(matchResps[Collector(r)], all[k + 1], inputData[r])
              IN  /\ matchResps' = [matchResps EXCEPT ![Collector(r)] = h.resps]
                  /\ cbRet' = [cbRet EXCEPT ![r] = h.ret]
           /\ reported' = [reported EXCEPT ![r] = Append(@, all[k + 1])]
           /\ RegexMap' = MapAfterLookup(RegexMap, all[k + 1].id)
    /\ UNCHANGED <<rpc, inputData, resp, scanErr, scanCalls, Scratch>>
    /\ UNCHANGED <<pc, source, lineNo, scannerErr, patterns, Db, err, engineCalls>>

\* mutant of ScanReturn: a scan that returned an error is tried once more
ScanReturnRetries(r) ==
    /\ rpc[r] = "scan"
    /\ \E fail \in BOOLEAN :
         LET all     == EngineMatches(Db, inputData[r])
             stopped == cbRet[r] # Nil
             e       == IF stopped THEN "scan terminated"
                        ELSE IF fail THEN "engine error" ELSE Nil
             again   == e # Nil /\ scanCalls[r] < 2
         IN  /\ fail \/ stopped \/ Len(reported[r]) = Len(all)
             /\ scanErr' = [scanErr EXCEPT ![r] = e]
             /\ resp' = [resp EXCEPT ![r] = RespAfterScan(@, e, matchResps[Collector(r)])]
             /\ scanCalls' = [scanCalls EXCEPT ![r] = IF again THEN @ + 1 ELSE @]
             /\ reported' = [reported EXCEPT ![r] = IF again THEN <<>> ELSE @]
             /\ matchResps' = [matchResps EXCEPT ![Collector(r)] = IF again THEN <<>> ELSE @]
             /\ rpc' = [rpc EXCEPT ![r] = IF again THEN "scan" ELSE "unlock"]
    /\ UNCHANGED <<inputData, cbRet, Scratch>>
    /\ UNCHANGED loadVars

\* Db.Scan returns (nil after the last match, an error if the callback asked
\* to stop or the engine failed) and the if/else fills resp
ScanReturn(r) ==
    /\ rpc[r] = "scan"
    /\ \E fail \in BOOLEAN :
         LET all     == EngineMatches(Db, inputData[r])
             stopped == cbRet[r] # Nil
             e       == IF stopped THEN "scan terminated"
                        ELSE IF fail THEN "engine error" ELSE Nil
         IN  /\ fail \/ stopped \/ Len(reported[r]) = Len(all)
             /\ scanErr' = [scanErr EXCEPT ![r] = e]
             /\ resp' = [resp EXCEPT ![r] = RespAfterScan(@, e, matchResps[Collector(r)])]
    /\ rpc' = [rpc EXCEPT ![r] = "unlock"]
    /\ UNCHANGED <<inputData, matchResps, reported, cbRet, scanCalls, Scratch>>
    /\ UNCHANGED loadVars

\* Scratch.Unlock()
Unlock(r) ==
    /\ rpc[r] = "unlock"
    /\ Scratch' = ReleaseScratch(Scratch, r)
    /\ rpc' = [rpc EXCEPT ![r] = "encode"]
    /\ UNCHANGED <<inputData, matchResps, resp, reported, scanErr, cbRet, scanCalls>>
    /\ UNCHANGED loadVars

\* json.NewEncoder(...).Encode(resp); the handler returns
Respond(r) ==
    /\ rpc[r] = "encode"
    /\ rpc' = [rpc EXCEPT ![r] = "done"]
    /\ UNCHANGED <<inputData, matchResps, resp, reported, scanErr, cbRet, scanCalls, Scratch>>
    /\ UNCHANGED loadVars

Init == InitCommon /\ source \in RuleFiles

Next ==
    \/ LoadNext
    \/ Run
    \/ Abort
    \/ \E r \in Req : Start(r)
    \/ \E r \in Req : Lock(r)
    \/ \E r \in Req : Callback(r)
    \/ \E r \in Req : ScanReturn(r)
    \/ \E r \in Req : Unlock(r)
    \/ \E r \in Req : Respond(r)

Spec == Init /\ [][Next]_vars

(***************************************************************************)
(* Requests.                                                               *)
(***************************************************************************)
\* the call has passed Db.Scan
Scanned(r) == rpc[r] \in {"unlock", "encode", "done"}

Outstanding(r) == Scratch.acquired[r] - Scratch.released[r]

\* C1: under every interleaving of the requests at most one call holds the
\* Scratch lock, acquisitions and releases alternate (never two acquisitions
\* outstanding), and a scan is in progress only in the call that holds the
\* lock.
C1_ScansSerialized ==
    /\ Cardinality(Scratch.holders) <= 1
    /\ \A r \in Req : Outstanding(r) \in {0, 1}
    /\ Cardinality({r \in Req : Outstanding(r) = 1}) <= 1
    /\ \A r \in Req : rpc[r] = "scan" => Scratch.holders = {r}
    /\ \A r, q \in Req : (rpc[r] = "scan" /\ rpc[q] = "scan") => r = q

\* one call is in the middle of its scan while another waits for the lock
C1_Witness ==
    \E r, q \in Req :
        /\ r # q
        /\ rpc[r] = "scan"
        /\ reported[r] # <<>>
        /\ rpc[q] = "lock"
        /\ Scratch.holders = {r}

\* C2: every call that acquired Scratch releases it exactly once before it
\* is done, whether the scan failed, found nothing or found matches; a call
\* that is done does not hold Scratch.
C2_ReleasedOnEveryPath ==
    \A r \in Req :
        /\ Scratch.released[r] <= Scratch.acquired[r]
        /\ Scratch.acquired[r] <= 1
        /\ rpc[r] \in {"encode", "done"} =>
              /\ r \notin Scratch.holders
              /\ Scratch.acquired[r] = 1
              /\ Scratch.released[r] = 1

\* one call is done after a failed scan and another after a scan with
\* matches, and nobody holds Scratch
C2_Witness ==
    \E r, q \in Req :
        /\ rpc[r] = "done" /\ scanErr[r] # Nil /\ Scratch.released[r] = 1
        /\ rpc[q] = "done" /\ scanErr[q] = Nil /\ resp[q].Data # <<>>
        /\ Scratch.released[q] = 1
        /\ Scratch.holders = {}

\* C3 as stated: a call with empty input answers errno -1 without acquiring
\* Scratch and without calling the engine's scan.
C3_AsStated ==
    \A r \in Req :
        (rpc[r] # "idle" /\ inputData[r] = <<>>)
            => /\ Scratch.acquired[r] = 0
               /\ rpc[r] # "scan"
               /\ rpc[r] = "done" => resp[r].Errno = -1

\* C4: for non-empty input errno is 0 exactly when the scan succeeded with at
\* least one collected match, 1 exactly when it succeeded with none (and the
\* match list is empty), -2 exactly when the engine returned an error (and the
\* message carries the engine's text); nothing else is produced.
C4_ErrnoContract ==
    \A r \in Req :
        (Scanned(r) /\ inputData[r] # <<>>)
            => LET ok == scanErr[r] = Nil
                   n  == Len(matchResps[r])
               IN  /\ resp[r].Errno \in {0, 1, -2}
                   /\ resp[r].Errno = 0 <=> (ok /\ n >= 1)
                   /\ resp[r].Errno = 1 <=> (ok /\ n = 0)
                   /\ resp[r].Errno = -2 <=> ~ok
                   /\ resp[r].Errno = 1 => resp[r].Data = <<>>
                   /\ resp[r].Errno = -2 => resp[r].Msg = <<"Db.Scan error: ", scanErr[r]>>

\* one call answered 0 with two matches, another answered 1 for a non-empty
\* input that matches nothing
C4_Witness ==
    \E r, q \in Req :
        /\ rpc[r] = "done" /\ resp[r].Errno = 0 /\ Len(resp[r].Data) = 2
        /\ rpc[q] = "done" /\ resp[q].Errno = 1 /\ inputData[q] # <<>>

\* the engine's event an entry of a result was built from
EventOfResp(m) == [id |-> m.Id, from |-> m.From, to |-> m.To, flags |-> m.Flags]

\* C5: after a successful scan the match list of the result is exactly the
\* sequence of events the engine passed to the callback, in that order, with
\* id, from, to and flags unchanged; the callback always returns nil, so the
\* engine delivered every match it found.
C5_MatchesInEngineOrder ==
    \A r \in Req :
        /\ cbRet[r] = Nil
        /\ (Scanned(r) /\ scanErr[r] = Nil) =>
              /\ Len(resp[r].Data) = Len(reported[r])
              /\ \A i \in 1..Len(reported[r]) :
                    EventOfResp(resp[r].Data[i]) = reported[r][i]
              /\ reported[r] = EngineMatches(Db, inputData[r])

\* a result with two matches that are not in the order of their ids
C5_Witness ==
    \E r \in Req :
        /\ rpc[r] = "done"
        /\ scanErr[r] = Nil
        /\ Len(resp[r].Data) = 2
        /\ resp[r].Data[1].Id > resp[r].Data[2].Id
        /\ resp[r].Data[1].To < resp[r].Data[2].To

\* C6: every entry of a call's result was reported by that call's own scan of
\* its own input, whatever the other calls do.
C6_NoCrossRequestLeak ==
    \A r \in Req :
        \A i \in 1..Len(resp[r].Data) :
            /\ resp[r].Data[i].Context = inputData[r]
            /\ \E j \in 1..Len(reported[r]) :
                  reported[r][j] = EventOfResp(resp[r].Data[i])

\* two calls with different inputs are both done with matches of their own
C6_Witness ==
    \E r, q \in Req :
        /\ rpc[r] = "done" /\ rpc[q] = "done"
        /\ inputData[r] # inputData[q]
        /\ resp[r].Data # <<>>
        /\ resp[q].Data # <<>>
        /\ resp[r].Data[1].To = resp[q].Data[1].To
        /\ resp[r].Data[1].Id # resp[q].Data[1].Id

\* C7: the callback attaches RegexMap's entry for the id when there is one
\* and the empty RegexLine when there is none; a miss is no error, drops no
\* event and does not stop the scan.
C7_MetadataLookup ==
    \A r \in Req :
        /\ cbRet[r] = Nil
        /\ Len(matchResps[r]) = Len(reported[r])
        /\ \A i \in 1..Len(matchResps[r]) :
              LET m == matchResps[r][i]
              IN  /\ m.Id = reported[r][i].id
                  /\ m.Id \in DOMAIN RegexMap => m.RegexLinev = RegexMap[m.Id]
                  /\ m.Id \notin DOMAIN RegexMap => m.RegexLinev = [Expr |-> <<>>, Data |-> <<>>]

\* a match whose id is not in RegexMap was collected with empty metadata and
\* the scan went on to a match whose id is in it
C7_Witness ==
    \E r \in Req :
        /\ Len(matchResps[r]) = 2
        /\ matchResps[r][1].Id \notin DOMAIN RegexMap
        /\ matchResps[r][1].RegexLinev = [Expr |-> <<>>, Data |-> <<>>]
        /\ matchResps[r][2].Id \in DOMAIN RegexMap
        /\ matchResps[r][2].RegexLinev # [Expr |-> <<>>, Data |-> <<>>]

(***************************************************************************)
(* Rule sources as the specification describes them (section 4.1, 6).      *)
(***************************************************************************)
\* the first character that is not white space is '#'
CommentLine(line) ==
    \E i \in 1..Len(line) :
        /\ line[i] = HASH
        /\ \A j \in 1..(i - 1) : line[j] \in {SP, TAB}

TabCount(line) == Cardinality({i \in 1..Len(line) : line[i] = TAB})

\* at least three tab-separated fields
ThreeFields(line) == TabCount(line) >= 2

\* the text before the first tab
IdField(line) ==
    LET tabs == {i \in 1..Len(line) : line[i] = TAB}
    IN  IF tabs = {} THEN line
        ELSE SubSeq(line, 1, (CHOOSE i \in tabs : \A j \in tabs : i <= j) - 1)

\* an optionally signed decimal number
NumericId(line) ==
    LET f    == IdField(line)
        body == IF f # <<>> /\ f[1] \in {"+", "-"} THEN Tail(f) ELSE f
    IN  body # <<>> /\ \A i \in 1..Len(body) : body[i] \in Digits

WellFormed(line) == ~CommentLine(line) /\ ThreeFields(line) /\ NumericId(line)

IdOf(line) == Atoi(IdField(line)).val

WellFormedAt(src) == {i \in 1..Len(src) : WellFormed(src[i])}

\* the table the specification asks for: one entry per distinct id among the
\* well-formed lines, holding the pattern and payload of the last such line
LastWins(src) ==
    [id \in {IdOf(src[i]) : i \in WellFormedAt(src)} |->
        LET last == CHOOSE i \in WellFormedAt(src) :
                        /\ IdOf(src[i]) = id
                        /\ \A j \in WellFormedAt(src) : IdOf(src[j]) = id => j <= i
        IN  [Expr |-> Split(src[last], TAB)[2], Data |-> Split(src[last], TAB)[3]]]

\* buildScratch has returned after reading the whole source: the file was
\* opened, the compile flags parsed and no read failed
SourceRead ==
    /\ pc = "returned"
    /\ err \notin {"empty regex filepath", "open error", "flag error"}
    /\ ~scannerErr

\* buildScratch has returned and had reached the source
SourceReached ==
    /\ pc = "returned"
    /\ err \notin {"empty regex filepath", "open error", "flag error"}

HasWellFormed(src) == WellFormedAt(src) # {}

\* a line on which the id parse fails: a rule line (not a comment) with three
\* fields and a non-numeric id
IdParseFails(line) == ~CommentLine(line) /\ ThreeFields(line) /\ ~NumericId(line)

NoIdParseFailure(src) == \A i \in 1..Len(src) : ~IdParseFails(src[i])

\* C8 as stated: for every rule source with at least one well-formed line and
\* no id-parse failure, Load succeeds and the id->metadata map has exactly one
\* entry per distinct id among the well-formed lines, holding the pattern and
\* payload of the last well-formed line with that id.
C8_AsStated ==
    (SourceRead /\ HasWellFormed(source) /\ NoIdParseFailure(source))
        => (err = Nil /\ RegexMap = LastWins(source))

\* C8 (amended): for every rule source with at least one well-formed line and
\* no id-parse failure whose patterns the engine compiles and for which it
\* allocates the workspace, Load succeeds and the id->metadata map has exactly
\* one entry per distinct id among the well-formed lines, holding the pattern
\* and payload of the last well-formed line with that id.
C8_LoadLastWriteWins ==
    (/\ SourceRead
     /\ HasWellFormed(source)
     /\ NoIdParseFailure(source)
     /\ err \notin {"compile error", "alloc error"})
        => (err = Nil /\ RegexMap = LastWins(source))

\* a successful load of a file in which a later well-formed line overwrote an
\* earlier one with the same id and another pattern
C8_Witness ==
    /\ pc = "returned"
    /\ err = Nil
    /\ \E i, j \in WellFormedAt(source) :
         /\ i < j
         /\ IdOf(source[i]) = IdOf(source[j])
         /\ Split(source[i], TAB)[2] # Split(source[j], TAB)[2]
         /\ RegexMap[IdOf(source[j])].Expr = Split(source[j], TAB)[2]
    /\ Cardinality(DOMAIN RegexMap) < Cardinality(WellFormedAt(source))

\* the loop has not gone past line i, and if it consumed line i it returned
\* the id-parse error there
StopsAt(i) ==
    /\ lineNo <= i
    /\ lineNo = i => (pc = "returned" /\ err = "Atoi error.")

\* C9 as stated: a line with at least three tab-separated fields whose id
\* field is not numeric makes Load fail, wherever it occurs; it is never
\* skipped and loading never continues past it.
C9_AsStated ==
    \A i \in 1..Len(source) :
        (ThreeFields(source[i]) /\ ~NumericId(source[i]))
            => (StopsAt(i) /\ (pc = "returned" => err # Nil))

\* C9 (amended): a line that is not a comment, has at least three
\* tab-separated fields and a non-numeric id field makes Load fail, wherever
\* it occurs; it is never skipped and loading never continues past it.
C9_BadIdIsFatal ==
    \A i \in 1..Len(source) :
        IdParseFails(source[i])
            => (StopsAt(i) /\ (pc = "returned" => err # Nil))

\* the load was aborted at a bad id that stands between two well-formed lines
C9_Witness ==
    /\ pc = "returned"
    /\ err = "Atoi error."
    /\ lineNo = 2
    /\ Len(source) = 3
    /\ WellFormed(source[1])
    /\ IdParseFails(source[2])
    /\ WellFormed(source[3])
    /\ DOMAIN RegexMap = {IdOf(source[1])}

\* only comment lines and lines with fewer than three fields (or no line)
ZeroWellFormed(src) ==
    \A i \in 1..Len(src) : CommentLine(src[i]) \/ ~ThreeFields(src[i])

\* C10: for every rule source with zero well-formed lines (empty, or only
\* comments and lines with fewer than three fields) Load fails with the
\* "Empty regex" error, and the engine's compile and workspace allocation are
\* never called.  Load is taken from the point where it has the source: the
\* file is open and the compile flags are parsed.
C10_EmptyRuleSet ==
    ZeroWellFormed(source)
        => /\ engineCalls = [compile |-> 0, alloc |-> 0]
           /\ Db = Nil
           /\ SourceReached => err = "Empty regex"

\* a file of a comment and a short line was read to its end and refused
C10_Witness ==
    /\ pc = "returned"
    /\ err = "Empty regex"
    /\ ~scannerErr
    /\ lineNo = Len(source)
    /\ \E i, j \in 1..Len(source) :
         /\ CommentLine(source[i])
         /\ ~CommentLine(source[j]) /\ ~ThreeFields(source[j]) /\ source[j] # <<>>

(***************************************************************************)
(* Startup as a whole.                                                     *)
(***************************************************************************)
\* preRunE has returned an error
LoadFailed == pc = "returned" /\ err # Nil

\* C11 as stated: a Load that fails leaves no partially built rule state
\* behind: RegexMap, Db and Scratch.s are what they were before preRunE ran
\* (no entry, no database, no scratch).
C11_AsStated ==
    LoadFailed => (RegexMap = EmptyMap /\ Db = Nil /\ Scratch.s = Nil)

\* C12: once the server is serving, no step of any request changes Db or
\* RegexMap (nor does anything else): both stay what startup left.
C12_RulesReadOnly ==
    [][pc = "serving" => (Db' = Db /\ RegexMap' = RegexMap)]_vars

\* a request has looked up an id that RegexMap lacks and one that it has,
\* while the other request is past its own scan
C12_Witness ==
    /\ pc = "serving"
    /\ \E r, q \in Req :
         /\ r # q
         /\ Len(matchResps[r]) = 2
         /\ matchResps[r][1].Id \notin DOMAIN RegexMap
         /\ matchResps[r][2].Id \in DOMAIN RegexMap
         /\ rpc[q] = "done"
         /\ resp[q].Data # <<>>

\* C13: each call invokes Db.Scan at most once, and exactly once when it got
\* past the scan (so for every non-empty input); a scan that returned an error
\* is not repeated, and its error is what the call reports (errno -2).
C13_ScanOnceNoRetry ==
    \A r \in Req :
        /\ scanCalls[r] <= 1
        /\ rpc[r] \in {"idle", "lock"} => scanCalls[r] = 0
        /\ rpc[r] \in {"scan", "unlock", "encode", "done"} => scanCalls[r] = 1
        /\ scanErr[r] # Nil =>
              /\ Scanned(r)
              /\ resp[r].Errno = -2
              /\ resp[r].Msg = <<"Db.Scan error: ", scanErr[r]>>

\* a call is done after one scan that failed part-way, with events already
\* delivered
C13_Witness ==
    \E r \in Req :
        /\ rpc[r] = "done"
        /\ scanErr[r] = "engine error"
        /\ scanCalls[r] = 1
        /\ inputData[r] # <<>>
        /\ Len(reported[r]) = 1
        /\ Len(EngineMatches(Db, inputData[r])) = 2

\* C14: two calls with the same input against the database startup left,
\* however they interleave with each other, answer with the same errno,
\* message and ordered match list, provided the engine behaved the same for
\* both (it returned an error to both or to neither; its matches are a
\* function of database and input).
C14_SameInputSameResult ==
    \A r, q \in Req :
        (/\ Scanned(r)
         /\ Scanned(q)
         /\ inputData[r] = inputData[q]
         /\ scanErr[r] = scanErr[q])
            => resp[r] = resp[q]

\* two calls with the same input are done with the same two matches
C14_Witness ==
    \E r, q \in Req :
        /\ r # q
        /\ rpc[r] = "done" /\ rpc[q] = "done"
        /\ inputData[r] = inputData[q]
        /\ resp[r].Errno = 0 /\ resp[q].Errno = 0
        /\ Len(resp[r].Data) = 2
        /\ resp[r].Data = resp[q].Data

(***************************************************************************)
(* Progress.  Every scan of the engine terminates (its callbacks and its   *)
(* return are taken), a handler that can take its next statement does, and *)
(* the mutex is granted to a goroutine that keeps asking for it.           *)
(***************************************************************************)
Fairness ==
    \A r \in Req :
        /\ SF_vars(Lock(r))
        /\ WF_vars(Callback(r))
        /\ WF_vars(ScanReturn(r))
        /\ WF_vars(Unlock(r))
        /\ WF_vars(Respond(r))

\* rule files of the progress specification: one that is served, one refused
FairRuleFiles == {<<LineNegId, LineComment, LineRule2>>,
                  <<LineShort, LineBadId>>}

InitFair == InitCommon /\ source \in FairRuleFiles

FairSpec == InitFair /\ [][Next]_vars /\ Fairness

\* some call waits for Scratch
SomeoneWaits == \E r \in Req : rpc[r] = "lock"

\* Scratch is free, or its holder is on the way to Scratch.Unlock()
LockWillBeFree ==
    \/ Scratch.holders = {}
    \/ \E q \in Scratch.holders : rpc[q] \in {"scan", "unlock"}

\* C15: with terminating scans and a fair lock every call that waits for
\* Scratch gets it, finishes its scan, releases and is done; and no call ever
\* waits while Scratch is held by a call that will not release it.
C15_EveryCallCompletes ==
    /\ \A r \in Req : (rpc[r] = "lock") ~> (rpc[r] = "done")
    /\ [](SomeoneWaits => LockWillBeFree)

\* a call waits while the holder, whose scan failed, has not yet unlocked
C15_Witness ==
    \E r, q \in Req :
        /\ rpc[r] = "lock"
        /\ rpc[q] = "unlock"
        /\ scanErr[q] # Nil
        /\ Scratch.holders = {q}

\* C16: a request is handled only while the server is serving, and it serves
\* only after a load that succeeded: the source was read to its end without
\* error, the database was compiled from its rules and the scratch allocated.
\* After any failed startup no request is ever handled.
C16_ServeOnlyAfterLoad ==
    /\ (\E r \in Req : rpc[r] # "idle") => pc = "serving"
    /\ pc = "exit" => err # Nil
    /\ pc = "serving" =>
          /\ err = Nil
          /\ ~scannerErr
          /\ lineNo = Len(source)
          /\ patterns # <<>>
          /\ engineCalls = [compile |-> 1, alloc |-> 1]
          /\ Scratch.s = "scratch"
          /\ Db = [patterns |-> patterns]

\* a request is being scanned by a server whose load compiled two rules
C16_Witness ==
    /\ pc = "serving"
    /\ Len(patterns) = 2
    /\ \E r \in Req : rpc[r] = "scan" /\ reported[r] # <<>>
    /\ \E q \in Req : rpc[q] = "idle"

\* a startup that failed has ended without any request handled
C16_FailedStartupWitness ==
    /\ pc = "exit"
    /\ err = "Atoi error."
    /\ \A r \in Req : rpc[r] = "idle"

(***************************************************************************)
(* Which rule a match belongs to.                                          *)
(***************************************************************************)
RECURSIVE ProducersEndingAt(_, _, _, _)
ProducersEndingAt(ps, data, to, i) ==
    IF i > Len(ps) THEN <<>>
    ELSE (IF IsSuffix(ps[i].Expression, SubSeq(data, 1, to)) THEN <<i>> ELSE <<>>)
         \o ProducersEndingAt(ps, data, to, i + 1)

RECURSIVE ProducersFrom(_, _, _)
ProducersFrom(ps, data, to) ==
    IF to > Len(data) THEN <<>>
    ELSE ProducersEndingAt(ps, data, to, 1) \o ProducersFrom(ps, data, to + 1)

\* for each event of a complete scan, in the engine's order, the index of the
\* compiled pattern that matched
Producers(db, data) == ProducersFrom(db.patterns, data, 1)

\* the rule lines of a source in file order: the k-th is the k-th pattern
RuleLines(src) == SelectSeq(src, WellFormed)

\* expression and payload of a rule line
MetadataOf(line) == [Expr |-> Split(line, TAB)[2], Data |-> Split(line, TAB)[3]]

\* C17 as stated: every match a call returns carries the expression and
\* payload of the rule whose pattern produced it, for every loaded rule file,
\* also one in which two well-formed lines have the same id and different
\* patterns.
C17_AsStated ==
    \A r \in Req :
        \A i \in 1..Len(resp[r].Data) :
            LET k == Producers(Db, inputData[r])[i]
            IN  resp[r].Data[i].RegexLinev = MetadataOf(RuleLines(source)[k])

(***************************************************************************)
(* Lines as section 4.1 processes them: trimmed first.                     *)
(***************************************************************************)
TrimmedFields(line) == Split(TrimSpace(line), TAB)

TrimmedComment(line) == HasPrefix(TrimSpace(line), <<HASH>>)

\* after trimming: id<TAB>pattern<TAB>payload with a numeric id
TrimmedRule(line) ==
    /\ ~TrimmedComment(line)
    /\ Len(TrimmedFields(line)) >= 3
    /\ Atoi(TrimmedFields(line)[1]).ok

\* after trimming: a comment, or fewer than three fields
TrimmedSkip(line) ==
    TrimmedComment(line) \/ Len(TrimmedFields(line)) < 3

\* C18 as stated: each line is trimmed before it is tested, split and parsed:
\* a line that after trimming is a rule with a numeric id is loaded and does
\* not abort the load, and a line that after trimming is a comment or has
\* fewer than three fields is skipped without aborting.
C18_AsStated ==
    /\ err = "Atoi error." =>
          (~TrimmedRule(source[lineNo]) /\ ~TrimmedSkip(source[lineNo]))
    /\ Len(patterns) = Cardinality({i \in 1..lineNo : TrimmedRule(source[i])})

\* C19: when Db.Scan returns an error after events were already delivered,
\* the call answers errno -2 with no match list (resp.Data stays unset): the
\* matches collected before the failure are not returned.
C19_ScanErrorDropsMatches ==
    \A r \in Req :
        (Scanned(r) /\ scanErr[r] # Nil)
            => /\ resp[r].Errno = -2
               /\ resp[r].Data = <<>>

\* a call is done with errno -2 and no data although its callback had
\* collected a match
C19_Witness ==
    \E r \in Req :
        /\ rpc[r] = "done"
        /\ resp[r].Errno = -2
        /\ resp[r].Data = <<>>
        /\ matchResps[r] # <<>>
        /\ Len(matchResps[r]) = Len(reported[r])

====
